---- MODULE Spec2Model ----
(***************************************************************************)
(* Steam Gaming Dashboard (src/app.js): the fetch orchestrator fetchData,  *)
(* the two source adapters fetchWithApi / fetchWithXml and the background  *)
(* achievement enrichment fetchAchievementsInBackground, as a state        *)
(* machine whose steps are the event-loop turns of the single-threaded     *)
(* program: a user/timer event, or the resumption of an async function     *)
(* after an await.                                                         *)
(***************************************************************************)
EXTENDS Integers, Sequences, FiniteSets, TLC

(***************************************************************************)
(* Bounds of the exploration.                                              *)
(***************************************************************************)
\* number of accepted fetchData() calls explored (state.achievementFetchId
\* is unbounded in the program)
MaxCycles == 3
\* number of enrichment batches whose per-game failures a scenario fixes
MaxBatches == 2
\* characters of an hours text of the public feed
MaxTextLen == 5

(***************************************************************************)
(* Program constants.                                                      *)
(***************************************************************************)
ACHIEVEMENT_PARALLEL == 10
\* state.refreshCountdown: seconds between two automatic refreshes
REFRESH_COUNTDOWN == 300

(***************************************************************************)
(* Values.  null/undefined of a numeric or object field is the record      *)
(* NULL, a number n in such a field is Num(n); a null string is NoKey.     *)
(***************************************************************************)
NULL == [null |-> TRUE]
UNDEFINED == [undefined |-> TRUE]
Num(n) == [v |-> n]
NoKey == "<null>"

SteamIds == {"a", "b"}
Keys == {"k1"}

RECURSIVE GCD(_, _)
GCD(a, b) == IF b = 0 THEN a ELSE GCD(b, a % b)

\* a non-negative JavaScript number that is a ratio n/d, in lowest terms
Rat(n, d) == LET g == GCD(n, d) IN [n |-> n \div g, d |-> d \div g]
RatAdd(x, y) == Rat(x.n * y.d + y.n * x.d, x.d * y.d)

(***************************************************************************)
(* Upstream: what the Steam endpoints can answer.                          *)
(***************************************************************************)
OwnedGame(id, forever, recent) ==
    [appid |-> id, name |-> ToString(id), playtime_forever |-> forever, playtime_2weeks |-> recent]

\* an owned game whose record carries no playtime fields
UntrackedGame(id) == [appid |-> id, name |-> ToString(id)]

LibEmpty == << >>
LibTwo == << OwnedGame(1, 120, 30), OwnedGame(2, 0, 0) >>
\* eleven played games in ascending playtime and one unplayed game: two
\* enrichment batches (10 + 1)
LibMany == [i \in 1..12 |-> OwnedGame(i, IF i = 12 THEN 0 ELSE 60 * i, IF i = 3 THEN 90 ELSE 0)]
Libraries == {LibEmpty, LibTwo, LibMany}
\* two played games, answering (5 of 10) and (10 of 10) achievements
LibPair == << OwnedGame(1, 120, 30), OwnedGame(2, 60, 0) >>
\* a game without playtime fields between a played and an unplayed one
LibUntracked == << OwnedGame(1, 60, 0), UntrackedGame(2), OwnedGame(3, 0, 0) >>

\* played games with equal playtimes, answering 50, 100 and 0 percent of
\* their achievements and, for appid 3, an empty achievement list
LibSort == << OwnedGame(1, 120, 30), OwnedGame(2, 120, 0), OwnedGame(16, 60, 60),
              OwnedGame(3, 60, 0) >>

AuxLookups == {"level", "badges", "friends"}
\* the sets of auxiliary lookups that fail in one authenticated fetch
AuxFailureSets == { {}, AuxLookups }

\* the achievement list of GetPlayerAchievements for an appid, as the pair
\* (number with achieved = 1, length), or NULL when playerstats is missing
UpstreamAchievements(appid) ==
    CASE appid = 16 -> [achieved |-> 0, total |-> 10]
      [] appid % 4 = 1 -> [achieved |-> 5, total |-> 10]
      [] appid % 4 = 2 -> [achieved |-> 10, total |-> 10]
      [] appid % 4 = 3 -> [achieved |-> 0, total |-> 0]
      [] OTHER -> NULL

\* text of <hoursOnRecord> / <hoursPlayed>, one character per element
XmlGame(name, onRecord, played) ==
    [gameName |-> name, hoursOnRecord |-> onRecord, hoursPlayed |-> played]
XmlDocEmpty == << >>
XmlDocThree == << XmlGame("g1", <<"1", ",", "2", "3", "4">>, <<"2", ".", "5">>),
                  XmlGame("g2", <<"1", "0">>, << >>),
                  XmlGame("g3", <<"0", ".", "5">>, <<"0", ".", "5">>) >>
XmlDocs == {XmlDocEmpty, XmlDocThree}

\* a feed out of order, with two games of equal hours
XmlDocTies == << XmlGame("g1", <<"5", ".", "5">>, << >>),
                 XmlGame("g2", <<"1", "5">>, <<"2", ".", "5">>),
                 XmlGame("g3", <<"1", ",", "5">>, << >>) >>

\* digit groups joined by commas, optionally followed by a decimal part
WellFormedHours(s) ==
    LET IsDigit(ch) == ch \in {"0", "1", "2", "3", "4", "5", "6", "7", "8", "9"}
    IN /\ Len(s) > 0
       /\ IsDigit(s[1]) /\ IsDigit(s[Len(s)])
       /\ \A i \in 1..Len(s) - 1 : ~IsDigit(s[i]) => IsDigit(s[i + 1])
       /\ \A i, j \in 1..Len(s) : s[i] = "." /\ i < j => IsDigit(s[j])

\* the texts <hoursOnRecord> can hold, of at most MaxTextLen characters
HoursTexts ==
    LET HoursChars == {"1", "5", ",", "."}
    IN {s \in UNION {[1..n -> HoursChars] : n \in 1..MaxTextLen} : WellFormedHours(s)}

\* feeds of one game with every such text, and of two games
FeedDocs ==
    LET PlayedTexts == {<< >>, <<"2", ".", "5">>}
    IN XmlDocs
         \cup {<< XmlGame("g1", t, p) >> : t \in HoursTexts, p \in PlayedTexts}
         \cup {<< XmlGame("g1", t, << >>), XmlGame("g2", u, p) >> :
                  t \in {<<"1", ",", "5">>, <<"5", ".", "5">>, <<"1", ",", "1", ",", "1">>},
                  u \in {<<"1", "5">>, <<"1", ",", "5", ".", "5">>},
                  p \in PlayedTexts}

ApiFailureKinds == {"network", "timeout", "status", "envelope", "no-player"}

\* what an auxiliary lookup settles with: no usable answer (rejected, timed
\* out, not ok, unparsable), or the parsed body with the members it carries
\* (UNDEFINED for a member the body lacks)
AuxFailed == [ok |-> FALSE]
LevelAnswer(level) == [ok |-> TRUE, player_level |-> level]
BadgesAnswer(count, xp) == [ok |-> TRUE, badges |-> count, player_xp |-> xp]
FriendsAnswer(count) == [ok |-> TRUE, friends |-> count]

\* what the five requests of one fetchWithApi settle with: owned and player
\* are "ok" or the way the load-bearing request fails
ApiResponse(owned, player, games, level, badges, friends) ==
    [owned |-> owned, player |-> player, games |-> games,
     level |-> level, badges |-> badges, friends |-> friends]

FailedResponse(kind) ==
    ApiResponse("ok", kind, LibEmpty, AuxFailed, AuxFailed, AuxFailed)
OkResponse(games, auxFailed) ==
    ApiResponse("ok", "ok", games,
                IF "level" \in auxFailed THEN AuxFailed ELSE LevelAnswer(Num(7)),
                IF "badges" \in auxFailed THEN AuxFailed ELSE BadgesAnswer(Num(3), Num(900)),
                IF "friends" \in auxFailed THEN AuxFailed ELSE FriendsAnswer(Num(2)))
ApiResponses ==
    {FailedResponse(kind) : kind \in ApiFailureKinds}
        \cup {OkResponse(games, auxFailed) : games \in Libraries, auxFailed \in AuxFailureSets}

\* every combination of answers of the three auxiliary lookups, and every
\* way the two load-bearing requests can fail
LevelAnswers == {AuxFailed} \cup {LevelAnswer(l) : l \in {UNDEFINED, Num(0), Num(7)}}
BadgesAnswers ==
    {AuxFailed} \cup {BadgesAnswer(b, x) : b \in {UNDEFINED, Num(0), Num(3)},
                                           x \in {UNDEFINED, Num(0), Num(900)}}
FriendsAnswers == {AuxFailed} \cup {FriendsAnswer(f) : f \in {UNDEFINED, Num(0), Num(2)}}
\* out of playtime order, with two games of equal playtime and one without
\* playtime fields
LibUnsorted == << OwnedGame(1, 60, 0), OwnedGame(2, 120, 30), UntrackedGame(3),
                  OwnedGame(4, 120, 0) >>
AllLibraries == {LibEmpty, LibTwo, LibPair, LibUntracked, LibUnsorted}
AllApiResponses ==
    {ApiResponse(owned, player, LibTwo, LevelAnswer(Num(7)), BadgesAnswer(Num(3), Num(900)),
                 FriendsAnswer(Num(2))) :
        owned \in (ApiFailureKinds \ {"no-player"}) \cup {"ok"},
        player \in ApiFailureKinds \cup {"ok"}}
    \cup {ApiResponse("ok", "ok", games, level, badges, friends) :
             games \in AllLibraries, level \in LevelAnswers,
             badges \in BadgesAnswers, friends \in FriendsAnswers}
XmlFailureKinds == {"network", "timeout", "status", "empty", "parsererror", "error-element"}

(***************************************************************************)
(* Pure functions of the adapters.                                         *)
(***************************************************************************)
NaN == [nan |-> TRUE]
NumAdd(x, y) == IF x = NaN \/ y = NaN THEN NaN ELSE RatAdd(x, y)

\* game[field] || 0
Minutes(game, field) == IF field \in DOMAIN game THEN game[field] ELSE 0

RECURSIVE SumOver(_, _, _)
\* games.forEach(game => total += game[field] || 0)
SumOver(games, field, i) ==
    IF i > Len(games) THEN 0 ELSE Minutes(games[i], field) + SumOver(games, field, i + 1)

\* every owned game is requested
GamesWithPlaytime_All(games) == games

\* games.filter(g => (g.playtime_forever || 0) > 0)
GamesWithPlaytime(games) == SelectSeq(games, LAMBDA g : Minutes(g, "playtime_forever") > 0)

\* only a recorded zero counts as unplayed
CountsAsUnplayed_RecordedZero(game) ==
    "playtime_forever" \in DOMAIN game /\ game.playtime_forever = 0

\* the else branch of `if ((game.playtime_forever || 0) > 0)`
CountsAsUnplayed(game) == ~(Minutes(game, "playtime_forever") > 0)

RECURSIVE InsertByPlaytime(_, _)
\* position of g in an already ordered list: behind every game that does not
\* have strictly less playtime (Array.prototype.sort is stable)
InsertByPlaytime(g, sorted) ==
    IF sorted = << >> THEN << g >>
    ELSE IF Minutes(Head(sorted), "playtime_forever") < Minutes(g, "playtime_forever")
         THEN << g >> \o sorted
         ELSE << Head(sorted) >> \o InsertByPlaytime(g, Tail(sorted))

\* the owned games in the order of the response
SortByPlaytime_AsAnswered(games) == games

RECURSIVE SortByPlaytime(_)
\* [...games].sort((a, b) => (b.playtime_forever || 0) - (a.playtime_forever || 0))
SortByPlaytime(games) ==
    IF games = << >> THEN << >>
    ELSE InsertByPlaytime(games[Len(games)], SortByPlaytime(SubSeq(games, 1, Len(games) - 1)))

\* sortedGames.map(game => ({ ... achievements: null }))
ApiGame(game) ==
    [appid |-> game.appid, name |-> game.name,
     hoursTotal |-> Rat(Minutes(game, "playtime_forever"), 60),
     hoursRecent |-> Rat(Minutes(game, "playtime_2weeks"), 60),
     achievements |-> NULL]

ApiGames(games) == LET sorted == SortByPlaytime(games)
                   IN [i \in 1..Len(sorted) |-> ApiGame(sorted[i])]

getOnlineState(code) ==
    LET states == << "offline", "online", "busy", "away", "snooze",
                     "looking-to-trade", "looking-to-play" >>
    IN IF code + 1 \in DOMAIN states /\ code # 0 THEN states[code + 1] ELSE "offline"

\* x || 0 and x || null of a count: 0 and undefined are falsy
OrZeroCount(x) == IF x = UNDEFINED \/ x = Num(0) THEN Num(0) ELSE x
OrNull(x) == IF x = UNDEFINED \/ x = Num(0) THEN NULL ELSE x

\* "Parse extra data": extraData after the three guarded blocks
ExtraData(resp) ==
    [level |-> IF resp.level.ok THEN resp.level.player_level ELSE NULL,
     badges |-> IF resp.badges.ok THEN OrZeroCount(resp.badges.badges) ELSE NULL,
     xp |-> IF resp.badges.ok THEN OrNull(resp.badges.player_xp) ELSE NULL,
     friends |-> IF resp.friends.ok THEN OrZeroCount(resp.friends.friends) ELSE NULL]

\* the load-bearing checks left out but for rejected requests
LoadBearingFails_RejectionsOnly(resp) ==
    resp.owned \in {"network", "timeout"} \/ resp.player \in {"network", "timeout"}

\* fetchWithApi raises before it builds anything: a load-bearing request
\* rejects (Promise.all), is not ok, lacks the response envelope, or the
\* player list is empty
LoadBearingFails(resp) ==
    \/ resp.owned \in {"network", "timeout"} \/ resp.player \in {"network", "timeout"}
    \/ resp.owned = "status" \/ resp.player = "status"
    \/ resp.owned = "envelope" \/ resp.player = "envelope"
    \/ resp.player = "no-player"

\* the share of played games as a fraction of one
completionRate_Fraction(played, count) ==
    IF count > 0 THEN Rat(played, count) ELSE Rat(0, 1)

\* games.length > 0 ? (playedGamesCount / games.length) * 100 : 0
completionRate(played, count) ==
    IF count > 0 THEN Rat(played * 100, count) ELSE Rat(0, 1)

\* the profile object built by fetchWithApi from the owned games, the player
\* record of the requested account and the parsed auxiliary lookups
ApiProfile(account, games, extraData) ==
    LET sorted == SortByPlaytime(games)
        totalMinutes == SumOver(games, "playtime_forever", 1)
        recentMinutes == SumOver(games, "playtime_2weeks", 1)
        played == Len(GamesWithPlaytime(games))
        unplayed == Len(SelectSeq(games, CountsAsUnplayed))
        count == Len(games)
    IN [steamId64 |-> account,
        steamId |-> account,
        onlineState |-> getOnlineState(1),
        totalGames |-> count,
        totalHours |-> Rat(totalMinutes, 60),
        recentHours |-> Rat(recentMinutes, 60),
        avgHours |-> IF count > 0 THEN Rat(totalMinutes, 60 * count) ELSE Rat(0, 1),
        mostPlayed |-> IF count > 0 THEN sorted[1].name ELSE "N/A",
        mostPlayedHours |-> IF count > 0
                            THEN Rat(Minutes(sorted[1], "playtime_forever"), 60) ELSE Rat(0, 1),
        playedGames |-> played,
        unplayedGames |-> unplayed,
        completionRate |-> completionRate(played, count),
        accountValue |-> count * 10,
        steamLevel |-> extraData.level,
        totalXP |-> extraData.xp,
        badgeCount |-> extraData.badges,
        friendCount |-> extraData.friends,
        totalAchievements |-> NULL,
        totalPossibleAchievements |-> NULL,
        perfectGames |-> NULL,
        gamesWithAchievements |-> NULL,
        avgAchievementCompletion |-> NULL]

\* fetchGameAchievements: null on any failure or a body without
\* playerstats.achievements, else the counts and the rounded percentage
fetchGameAchievements_NeverFails(appid, requestFailed) ==
    LET up == UpstreamAchievements(appid)
    IN IF up = NULL THEN NULL
       ELSE [achieved |-> up.achieved, total |-> up.total,
             percent |-> IF up.total > 0
                         THEN (200 * up.achieved + up.total) \div (2 * up.total)
                         ELSE 0]

fetchGameAchievements(appid, requestFailed) ==
    LET up == UpstreamAchievements(appid)
    IN IF requestFailed \/ up = NULL THEN NULL
       ELSE [achieved |-> up.achieved, total |-> up.total,
             percent |-> IF up.total > 0
                         THEN (200 * up.achieved + up.total) \div (2 * up.total)
                         ELSE 0]

DigitValue == [c \in {"0", "1", "2", "3", "4", "5", "6", "7", "8", "9"} |->
                 CASE c = "0" -> 0 [] c = "1" -> 1 [] c = "2" -> 2 [] c = "3" -> 3
                   [] c = "4" -> 4 [] c = "5" -> 5 [] c = "6" -> 6 [] c = "7" -> 7
                   [] c = "8" -> 8 [] OTHER -> 9]

RECURSIVE ReplaceFirstComma(_)
\* text.replace(',', ''): a string pattern replaces the first occurrence only
ReplaceFirstComma(s) ==
    IF s = << >> THEN << >>
    ELSE IF Head(s) = "," THEN Tail(s)
         ELSE << Head(s) >> \o ReplaceFirstComma(Tail(s))

RECURSIVE DigitPrefixLen(_)
DigitPrefixLen(s) ==
    IF s = << >> \/ Head(s) \notin DOMAIN DigitValue THEN 0 ELSE 1 + DigitPrefixLen(Tail(s))

RECURSIVE DigitsValue(_, _)
DigitsValue(s, acc) ==
    IF s = << >> THEN acc ELSE DigitsValue(Tail(s), 10 * acc + DigitValue[Head(s)])

RECURSIVE Pow10(_)
Pow10(k) == IF k = 0 THEN 1 ELSE 10 * Pow10(k - 1)

\* parseFloat: the longest prefix digits[.digits]; NaN when there is none
parseFloat(s) ==
    LET intLen == DigitPrefixLen(s)
        rest == SubSeq(s, intLen + 1, Len(s))
        fracLen == IF rest # << >> /\ Head(rest) = "." THEN DigitPrefixLen(Tail(rest)) ELSE 0
        intVal == DigitsValue(SubSeq(s, 1, intLen), 0)
        fracVal == DigitsValue(SubSeq(rest, 2, fracLen + 1), 0)
    IN IF intLen = 0 /\ fracLen = 0 THEN NaN
       ELSE Rat(intVal * Pow10(fracLen) + fracVal, Pow10(fracLen))

\* text || '0'
OrZero(s) == IF s = << >> THEN << "0" >> ELSE s

XmlGameParsed(node) ==
    [name |-> node.gameName,
     hoursTotal |-> parseFloat(OrZero(ReplaceFirstComma(node.hoursOnRecord))),
     hoursRecent |-> parseFloat(OrZero(node.hoursPlayed))]

RECURSIVE SumHours(_, _, _)
SumHours(games, field, i) ==
    IF i > Len(games) THEN Rat(0, 1)
    ELSE NumAdd(games[i][field], SumHours(games, field, i + 1))

\* parseXmlProfile
parseXmlProfile(account, doc) ==
    LET games == [i \in 1..Len(doc) |-> XmlGameParsed(doc[i])]
    IN [steamId64 |-> account,
        steamId |-> account,
        onlineState |-> "online",
        games |-> games,
        totalGames |-> Len(doc),
        totalHours |-> SumHours(games, "hoursTotal", 1),
        recentHours |-> SumHours(games, "hoursRecent", 1)]

IsApiProfile(p) == p # NULL /\ "playedGames" \in DOMAIN p

(***************************************************************************)
(* The page: the text of the four main stats and what the games list       *)
(* holds.  A text is Dashes for '--', else the number it was formatted     *)
(* from, rounded as the formatting rounds it.                              *)
(***************************************************************************)
Dashes == [dash |-> TRUE]

\* Math.round(x) of a non-negative number
Round(x) == (2 * x.n + x.d) \div (2 * x.d)

\* x.toFixed(1): the number of tenths
ToFixed1(x) == [tenths |-> (20 * x.n + x.d) \div (2 * x.d)]

\* formatNumber
formatNumber(x) ==
    IF x.n >= 1000 * x.d THEN [k |-> ToFixed1(Rat(x.n, 1000 * x.d)).tenths]
    ELSE [units |-> Round(x)]

\* capitalizeFirst(str) || '--'
capitalizeFirst(str) ==
    CASE str = "online" -> [word |-> "Online"]
      [] str = "offline" -> [word |-> "Offline"]
      [] str = "" -> Dashes
      [] OTHER -> [word |-> str]

\* the stats before the first render
InitialDisplay ==
    [onlineStatus |-> Dashes, gamesCount |-> Dashes, totalHours |-> Dashes,
     recentHours |-> Dashes, gamesList |-> "initial"]

\* renderProfile up to its call of renderGamesList: the main stats; x > 0 is
\* false for NaN
renderProfile(shown, profile) ==
    LET IsPositive(x) == x # NaN /\ x.n > 0
    IN
    [shown EXCEPT
        !.onlineStatus = capitalizeFirst(profile.onlineState),
        !.gamesCount = IF profile.totalGames > 0
                       THEN formatNumber(Rat(profile.totalGames, 1)) ELSE Dashes,
        !.totalHours = IF IsPositive(profile.totalHours)
                       THEN formatNumber(Rat(Round(profile.totalHours), 1)) ELSE Dashes,
        !.recentHours = IF IsPositive(profile.recentHours)
                        THEN ToFixed1(profile.recentHours) ELSE Dashes]

\* renderGamesList when its template does not raise
renderGamesList(shown, games) ==
    [shown EXCEPT !.gamesList = IF Len(games) = 0 THEN "no-games" ELSE "games"]

\* the stats overwritten by an error display that leaves them alone
showError_KeepStats(shown) == [shown EXCEPT !.gamesList = "error-state"]

\* showError
showError(shown) ==
    [shown EXCEPT !.onlineStatus = Dashes, !.totalHours = Dashes, !.gamesCount = Dashes,
                  !.recentHours = Dashes, !.gamesList = "error-state"]


(***************************************************************************)
(* getSortedGames                                                          *)
(***************************************************************************)
\* a game without achievement data ranked with the games at 0 percent
SortValue_AbsentAsZero(game, sortBy) ==
    LET Collation == << "1", "16", "2", "3", "g1", "g2", "g3" >>
    IN CASE sortBy = "recent" ->
               IF game.hoursRecent = NaN THEN Rat(0, 1) ELSE game.hoursRecent
         [] sortBy = "completion" ->
               IF "achievements" \in DOMAIN game /\ game.achievements # NULL
               THEN [n |-> game.achievements.percent, d |-> 1] ELSE [n |-> 0, d |-> 1]
         [] sortBy \in {"name-asc", "name-desc"} ->
               [n |-> CHOOSE k \in DOMAIN Collation : Collation[k] = game.name, d |-> 1]
         [] OTHER -> IF game.hoursTotal = NaN THEN Rat(0, 1) ELSE game.hoursTotal

\* what the comparator compares under each sort key: hoursRecent || 0,
\* achievements?.percent ?? -1, the place of name || '' among the names that
\* occur as localeCompare orders them, hoursTotal || 0
SortValue(game, sortBy) ==
    LET Collation == << "1", "16", "2", "3", "g1", "g2", "g3" >>
    IN CASE sortBy = "recent" ->
               IF game.hoursRecent = NaN THEN Rat(0, 1) ELSE game.hoursRecent
         [] sortBy = "completion" ->
               IF "achievements" \in DOMAIN game /\ game.achievements # NULL
               THEN [n |-> game.achievements.percent, d |-> 1] ELSE [n |-> -1, d |-> 1]
         [] sortBy \in {"name-asc", "name-desc"} ->
               [n |-> CHOOSE k \in DOMAIN Collation : Collation[k] = game.name, d |-> 1]
         [] OTHER -> IF game.hoursTotal = NaN THEN Rat(0, 1) ELSE game.hoursTotal

\* the numeric keys compared in ascending order
ComparatorPositive_Ascending(a, b, sortBy) ==
    LET x == SortValue(a, sortBy)
        y == SortValue(b, sortBy)
    IN y.n * x.d < x.n * y.d

\* the comparator of getSortedGames returns a positive number for (a, b):
\* b is to come before a
ComparatorPositive(a, b, sortBy) ==
    LET x == SortValue(a, sortBy)
        y == SortValue(b, sortBy)
    IN IF sortBy = "name-asc" THEN y.n * x.d < x.n * y.d ELSE x.n * y.d < y.n * x.d

\* getSortedGames: the sorted copy, and state.allGames after the call.
\* Array.prototype.sort is stable: a game goes before the first game the
\* comparator puts after it
getSortedGames(games, sortBy) ==
    LET RECURSIVE SortInsert(_, _)
        SortInsert(game, sorted) ==
            IF sorted = << >> THEN << game >>
            ELSE IF ComparatorPositive(Head(sorted), game, sortBy)
                 THEN << game >> \o sorted
                 ELSE << Head(sorted) >> \o SortInsert(game, Tail(sorted))
        RECURSIVE SortPrefix(_)
        SortPrefix(k) ==
            IF k = 0 THEN << >> ELSE SortInsert(games[k], SortPrefix(k - 1))
    IN [sorted |-> IF Len(games) = 0 THEN << >> ELSE SortPrefix(Len(games)),
        allGames |-> games]

VARIABLES
    steamId, apiKey, apiMode, data, allGames, apiFailCount, isLoading,
    achievementFetchId, isFetchingAchievements,
    loadingOverlay, apiKeyPrompt,
    indexDefined,
    fetches, runs,
    fetchCall,
    input, output,
    refreshCountdown, display

stateVars == <<steamId, apiKey, apiMode, data, allGames, apiFailCount, isLoading,
               achievementFetchId, isFetchingAchievements>>
vars == <<steamId, apiKey, apiMode, data, allGames, apiFailCount, isLoading,
          achievementFetchId, isFetchingAchievements, loadingOverlay, apiKeyPrompt,
          indexDefined, fetches, runs, fetchCall, input, output,
          refreshCountdown, display>>

Cycles == 1..MaxCycles

(***************************************************************************)
(* Activations.  fetches[c] is the invocation of fetchData that was        *)
(* accepted as cycle c, runs[c] the invocation of                          *)
(* fetchAchievementsInBackground made by that cycle's fetchWithApi.  The    *)
(* field fault is what befalls the requests the activation is waiting for: *)
(* "none", "hang" (no answer ever arrives) or "offline" (the connection    *)
(* fails).  input is the upstream behaviour fixed for a whole behaviour in *)
(* the specifications that examine one adapter or one enrichment scenario, *)
(* output what such a scenario recorded.                                   *)
(***************************************************************************)
NoFetch == [pc |-> "none", account |-> "", key |-> NoKey, startData |-> NULL,
            startGames |-> << >>, notice |-> FALSE, xmlRequested |-> FALSE,
            prompted |-> FALSE, enrichment |-> "none", fault |-> "none"]
NoRun == [pc |-> "none", fetchId |-> 0, games |-> << >>, i |-> 0,
          totalAchievements |-> 0, totalPossible |-> 0, perfectGames |-> 0,
          gamesWithAchievements |-> 0, account |-> "", key |-> NoKey,
          fault |-> "none"]
Faults == {"hang", "offline"}
NoInput == [none |-> TRUE]
NoOutput == [none |-> TRUE]

FetchInFlight(c) == fetches[c].pc \in {"api", "xml"}
RunInFlight(c) == runs[c].pc \in {"await", "sleep"}

\* the state after construction, but for the upstream scenario
Constructed ==
    /\ steamId \in SteamIds
    /\ apiKey \in {NoKey} \cup Keys
    /\ apiMode = (apiKey # NoKey)
    /\ data = NULL
    /\ allGames = << >>
    /\ apiFailCount = 0
    /\ isLoading = FALSE
    /\ achievementFetchId = 0
    /\ isFetchingAchievements = FALSE
    /\ loadingOverlay = FALSE
    /\ apiKeyPrompt = FALSE
    /\ indexDefined \in BOOLEAN
    /\ fetches = [c \in Cycles |-> NoFetch]
    /\ runs = [c \in Cycles |-> NoRun]
    /\ fetchCall = "none"
    /\ output = NoOutput
    /\ refreshCountdown = REFRESH_COUNTDOWN
    /\ display = InitialDisplay

Init == Constructed /\ input = NoInput

(***************************************************************************)
(* fetchData                                                               *)
(***************************************************************************)
\* the guard dropped: every call starts a cycle
AlreadyLoading_NoGuard == FALSE

\* the guard also closed while an enrichment run holds its flag
AlreadyLoading_WhileEnriching == isLoading \/ isFetchingAchievements

\* if (state.isLoading) return;
AlreadyLoading == isLoading

\* the token advanced by two
NextFetchId_Skip(id) == id + 2

\* state.achievementFetchId++
NextFetchId(id) == id + 1

\* the prompt already on the first failure
ReachedFailLimit_First(count) == count >= 1

\* if (state.apiFailCount >= 2)
ReachedFailLimit(count) == count >= 2

\* the free identifier `index` in the template of renderGamesList is read
\* once per displayed game; without a global binding the read raises
RenderThrows(games) == ~indexDefined /\ Len(games) > 0

\* the invocations of fetchData that have not returned yet
StillInFlight == [c \in Cycles |-> IF FetchInFlight(c) THEN fetches[c] ELSE NoFetch]

\* fetchData() up to its first await, called with the settings in effect:
\* sid, key and mode are state.steamId, state.apiKey and state.apiMode at
\* the call
fetchData(sid, key, mode) ==
    IF AlreadyLoading
    THEN /\ fetchCall' = "skipped"
         /\ UNCHANGED <<isLoading, achievementFetchId, loadingOverlay, fetches>>
    ELSE /\ achievementFetchId < MaxCycles
         /\ isLoading' = TRUE
         /\ achievementFetchId' = NextFetchId(achievementFetchId)
         /\ loadingOverlay' = TRUE
         /\ fetches' = [StillInFlight EXCEPT ![achievementFetchId'] =
                [NoFetch EXCEPT !.pc = IF mode /\ key # NoKey THEN "api" ELSE "xml",
                                !.account = sid,
                                !.key = key,
                                !.xmlRequested = ~(mode /\ key # NoKey),
                                !.startData = data,
                                !.startGames = allGames]]
         /\ fetchCall' = "accepted"

\* a call of fetchData() with the settings in effect, whoever makes it:
\* init, the refresh timer or the refresh button
ManualRefresh ==
    /\ fetchData(steamId, apiKey, apiMode)
    /\ UNCHANGED <<steamId, apiKey, apiMode, data, allGames, apiFailCount,
                   isFetchingAchievements, apiKeyPrompt, indexDefined, runs,
                   input, output, refreshCountdown, display>>

(***************************************************************************)
(* The refresh timer.  output is the last refresh event the handlers       *)
(* reported to Analytics.                                                  *)
(***************************************************************************)
\* the countdown taken as expired one tick early
CountdownExpired_Early(n) == n <= 1

\* if (state.refreshCountdown <= 0)
CountdownExpired(n) == n <= 0

\* the setInterval callback of startRefreshTimer, once per second
TimerTick ==
    LET counted == refreshCountdown - 1
    IN /\ IF CountdownExpired(counted)
          THEN /\ output' = [tracked |-> "auto_refresh"]
               /\ fetchData(steamId, apiKey, apiMode)
               /\ refreshCountdown' = REFRESH_COUNTDOWN
          ELSE /\ refreshCountdown' = counted
               /\ fetchCall' = "none"
               /\ UNCHANGED <<isLoading, achievementFetchId, loadingOverlay, fetches, output>>
       /\ UNCHANGED <<steamId, apiKey, apiMode, data, allGames, apiFailCount,
                      isFetchingAchievements, apiKeyPrompt, indexDefined, runs,
                      input, display>>

\* manualRefresh: the refresh button and the R key
manualRefresh ==
    /\ output' = [tracked |-> "manual_refresh"]
    /\ fetchData(steamId, apiKey, apiMode)
    /\ refreshCountdown' = REFRESH_COUNTDOWN
    /\ UNCHANGED <<steamId, apiKey, apiMode, data, allGames, apiFailCount,
                   isFetchingAchievements, apiKeyPrompt, indexDefined, runs,
                   input, display>>

(***************************************************************************)
(* The games list.  output is the sort key in effect and the outcome of    *)
(* the last getSortedGames call of a click: its argument, the order it     *)
(* returned and state.allGames after it.                                   *)
(***************************************************************************)
SortKeys == {"alltime", "recent", "completion", "name-asc", "name-desc"}

\* state.sortBy, 'alltime' until a key is chosen
sortBy == IF output = NoOutput THEN "alltime" ELSE output.sortBy

\* renderGamesList() with the sort key sort in effect
Rerender(sort) ==
    LET call == getSortedGames(allGames, sort)
    IN /\ output' = [sortBy |-> sort, games |-> allGames, shown |-> call.sorted,
                     allGames |-> call.allGames]
       /\ allGames' = call.allGames
       /\ display' = IF RenderThrows(call.sorted) THEN display
                     ELSE renderGamesList(display, call.sorted)
       /\ fetchCall' = "none"
       /\ UNCHANGED <<steamId, apiKey, apiMode, data, apiFailCount, isLoading,
                      achievementFetchId, isFetchingAchievements, loadingOverlay,
                      apiKeyPrompt, indexDefined, fetches, runs, input, refreshCountdown>>

\* click on an option of the sort menu
SortChosen(sort) == sort # sortBy /\ Rerender(sort)

\* click on the show-more button
ShowMoreClicked == Rerender(sortBy)

(***************************************************************************)
(* Requests: how a request whose fault is given settles, "answered" when   *)
(* the response arrives, else the rejection raised, "pending" when nothing *)
(* ever settles it                                                         *)
(***************************************************************************)
\* the abort timer left out
fetchWithTimeout_NoAbort(fault) ==
    CASE fault = "hang" -> "pending"
      [] fault = "offline" -> "network"
      [] OTHER -> "answered"

\* fetchWithTimeout: controller.abort() after timeoutMs turns a request
\* without answer into the rejection Error('Request timeout')
fetchWithTimeout(fault) ==
    CASE fault = "hang" -> "timeout"
      [] fault = "offline" -> "network"
      [] OTHER -> "answered"

\* fetch(url) without a signal, as fetchGameAchievements calls it
fetch(fault) ==
    CASE fault = "hang" -> "pending"
      [] fault = "offline" -> "network"
      [] OTHER -> "answered"

\* only an answered request lets the adapter resume
FetchSettles_AnsweredOnly(c) == fetches[c].fault = "none"

\* `await fetchWithTimeout(...)` of cycle c's adapter can resume, and
\* `await Promise.all(batchPromises)` of cycle c's run can
FetchSettles(c) == fetchWithTimeout(fetches[c].fault) # "pending"
BatchSettles(c) == fetch(runs[c].fault) # "pending"

\* the requests cycle c's fetchData is waiting for meet a fault
FetchFault(c, fault) ==
    /\ FetchInFlight(c)
    /\ fetches[c].fault = "none"
    /\ fetches' = [fetches EXCEPT ![c].fault = fault]
    /\ fetchCall' = "none"
    /\ UNCHANGED <<stateVars, loadingOverlay, apiKeyPrompt, indexDefined, runs, input, output, refreshCountdown, display>>

\* the per-game requests of the batch cycle c's run is waiting for meet a fault
BatchFault(c, fault) ==
    /\ runs[c].pc = "await"
    /\ runs[c].fault = "none"
    /\ runs' = [runs EXCEPT ![c].fault = fault]
    /\ fetchCall' = "none"
    /\ UNCHANGED <<stateVars, loadingOverlay, apiKeyPrompt, indexDefined, fetches, input, output, refreshCountdown, display>>

(***************************************************************************)
(* fetchAchievementsInBackground                                           *)
(***************************************************************************)
\* the token comparison dropped: a superseded run carries on
IsStale_Never(fetchId) == FALSE

\* if (fetchId !== state.achievementFetchId) return;   (loop top, after await)
IsStale(fetchId) == fetchId # achievementFetchId

\* the single-flight guard dropped
AchievementFetchInProgress_NoGuard(flag) == FALSE

\* if (state.isFetchingAchievements) return;
AchievementFetchInProgress(flag) == flag

\* finally { if (fetchId === state.achievementFetchId) state.isFetchingAchievements = false; }
FlagAfterExit(fetchId, flag) == IF fetchId = achievementFetchId THEN FALSE ELSE flag

\* the fifth field is left for a later statement
AssignAggregate_Partial(profile, achieved, possible, perfect, withData, average) ==
    [totalAchievements |-> Num(achieved),
     totalPossibleAchievements |-> Num(possible),
     perfectGames |-> Num(perfect),
     gamesWithAchievements |-> Num(withData)] @@ profile

\* assignment of the five aggregate fields of a profile object
AssignAggregate(profile, achieved, possible, perfect, withData, average) ==
    [totalAchievements |-> Num(achieved),
     totalPossibleAchievements |-> Num(possible),
     perfectGames |-> Num(perfect),
     gamesWithAchievements |-> Num(withData),
     avgAchievementCompletion |-> Num(average)] @@ profile

\* "No games to fetch, mark achievements as complete with zeros"
ZeroedAggregate(profile) == AssignAggregate(profile, 0, 0, 0, 0, Rat(0, 1))

\* the accumulators live on between runs: a run starts from the totals the
\* previous one left in state.data
StartTotals_Carried ==
    IF data # NULL /\ "totalAchievements" \in DOMAIN data /\ data.totalAchievements # NULL
    THEN [totalAchievements |-> data.totalAchievements.v,
          totalPossible |-> data.totalPossibleAchievements.v,
          perfectGames |-> data.perfectGames.v,
          gamesWithAchievements |-> data.gamesWithAchievements.v]
    ELSE [totalAchievements |-> 0, totalPossible |-> 0, perfectGames |-> 0,
          gamesWithAchievements |-> 0]

\* "Achievement stats accumulator": the four locals of a call
StartTotals ==
    [totalAchievements |-> 0, totalPossible |-> 0, perfectGames |-> 0,
     gamesWithAchievements |-> 0]

\* the part of a call up to its first await (or its return), made with the
\* owned games and the token read by the caller; cur is state.data and flag
\* state.isFetchingAchievements at the call.  The result names the new
\* state.data, the new flag and the activation left behind.
EnrichmentCall(games, fetchId, cur, flag) ==
    LET played == GamesWithPlaytime(games)
    IN IF Len(played) = 0
       THEN [data |-> IF cur # NULL /\ fetchId = achievementFetchId
                      THEN ZeroedAggregate(cur) ELSE cur,
             flag |-> flag, run |-> NoRun, outcome |-> "zeroed"]
       ELSE IF AchievementFetchInProgress(flag)
       THEN [data |-> cur, flag |-> flag, run |-> NoRun, outcome |-> "refused"]
       ELSE IF IsStale(fetchId)
       THEN [data |-> cur, flag |-> FlagAfterExit(fetchId, TRUE),
             run |-> [NoRun EXCEPT !.pc = "cancelled", !.fetchId = fetchId],
             outcome |-> "started"]
       ELSE [data |-> cur, flag |-> TRUE,
             run |-> [NoRun EXCEPT !.pc = "await", !.fetchId = fetchId, !.games = played,
                                   !.account = steamId, !.key = apiKey,
                                   !.totalAchievements = StartTotals.totalAchievements,
                                   !.totalPossible = StartTotals.totalPossible,
                                   !.perfectGames = StartTotals.perfectGames,
                                   !.gamesWithAchievements = StartTotals.gamesWithAchievements],
             outcome |-> "started"]

\* gamesWithPlaytime.slice(i, i + CONFIG.ACHIEVEMENT_PARALLEL)
Batch(run) ==
    SubSeq(run.games, run.i + 1,
           IF run.i + ACHIEVEMENT_PARALLEL < Len(run.games)
           THEN run.i + ACHIEVEMENT_PARALLEL ELSE Len(run.games))

\* the sets of per-game requests of a batch that fail: none, the first, all
FailPatterns == {"none", "first", "all"}
FailSet(batch, pattern) ==
    CASE pattern = "none" -> {}
      [] pattern = "first" -> {batch[1].appid}
      [] OTHER -> {batch[k].appid : k \in 1..Len(batch)}
FailSets(batch) == {FailSet(batch, pattern) : pattern \in FailPatterns}

\* state.allGames.findIndex(g => g.appid === appid), 0 for -1
FindIndex(games, appid) ==
    LET hits == {k \in 1..Len(games) : "appid" \in DOMAIN games[k] /\ games[k].appid = appid}
    IN IF hits = {} THEN 0 ELSE CHOOSE k \in hits : \A j \in hits : k <= j

RECURSIVE ProcessResults(_, _, _, _)
\* batchResults.forEach((achData, idx) => ...): acc carries the four
\* accumulators of the run and state.allGames
ProcessResults(k, batch, failed, acc) ==
    IF k > Len(batch) THEN acc
    ELSE LET achData == fetchGameAchievements(batch[k].appid, batch[k].appid \in failed)
             at == FindIndex(acc.allGames, batch[k].appid)
         IN IF achData # NULL /\ achData.total > 0
            THEN ProcessResults(k + 1, batch, failed,
                   [totalAchievements |-> acc.totalAchievements + achData.achieved,
                    totalPossible |-> acc.totalPossible + achData.total,
                    gamesWithAchievements |-> acc.gamesWithAchievements + 1,
                    perfectGames |-> IF achData.achieved = achData.total
                                     THEN acc.perfectGames + 1 ELSE acc.perfectGames,
                    allGames |-> IF at # 0
                                 THEN [acc.allGames EXCEPT ![at].achievements = achData]
                                 ELSE acc.allGames])
            ELSE ProcessResults(k + 1, batch, failed, acc)

\* a new Profile object that carries the account and the aggregate only
WithAggregate_FreshProfile(profile, acc) ==
    AssignAggregate([steamId64 |-> profile.steamId64],
                    acc.totalAchievements, acc.totalPossible, acc.perfectGames,
                    acc.gamesWithAchievements,
                    IF acc.gamesWithAchievements > 0
                    THEN Rat(acc.totalAchievements * 100, acc.totalPossible)
                    ELSE Rat(0, 1))

\* "Update profile stats"
WithAggregate(profile, acc) ==
    AssignAggregate(profile, acc.totalAchievements, acc.totalPossible, acc.perfectGames,
                    acc.gamesWithAchievements,
                    IF acc.gamesWithAchievements > 0
                    THEN Rat(acc.totalAchievements * 100, acc.totalPossible)
                    ELSE Rat(0, 1))

\* every exit reported as a completion
Finished_AlwaysDone(run, how) == [NoRun EXCEPT !.pc = "done", !.fetchId = run.fetchId]

Finished(run, how) == [NoRun EXCEPT !.pc = how, !.fetchId = run.fetchId]

\* every batch counts from zero
RunningTotals_PerBatch(run) ==
    [totalAchievements |-> 0, totalPossible |-> 0, gamesWithAchievements |-> 0,
     perfectGames |-> 0]

\* the accumulators of the call as the batches so far left them
RunningTotals(run) ==
    [totalAchievements |-> run.totalAchievements,
     totalPossible |-> run.totalPossible,
     gamesWithAchievements |-> run.gamesWithAchievements,
     perfectGames |-> run.perfectGames]

\* resumption after `await Promise.all(batchPromises)` when the requests of
\* the appids in failed returned null
BatchResolveWith(c, failed) ==
    /\ runs[c].pc = "await"
    /\ LET run == runs[c] IN
       IF IsStale(run.fetchId)
       THEN /\ runs' = [runs EXCEPT ![c] = Finished(run, "cancelled")]
            /\ isFetchingAchievements' = FlagAfterExit(run.fetchId, isFetchingAchievements)
            /\ UNCHANGED <<data, allGames>>
       ELSE LET acc == ProcessResults(1, Batch(run), failed,
                          [allGames |-> allGames] @@ RunningTotals(run))
                counted == [run EXCEPT !.totalAchievements = acc.totalAchievements,
                                       !.totalPossible = acc.totalPossible,
                                       !.gamesWithAchievements = acc.gamesWithAchievements,
                                       !.perfectGames = acc.perfectGames]
            IN /\ allGames' = acc.allGames
               /\ data' = IF data # NULL THEN WithAggregate(data, acc) ELSE data
               /\ IF RenderThrows(acc.allGames)
                  THEN /\ runs' = [runs EXCEPT ![c] = Finished(counted, "failed")]
                       /\ isFetchingAchievements' =
                              FlagAfterExit(run.fetchId, isFetchingAchievements)
                  ELSE IF run.i + ACHIEVEMENT_PARALLEL < Len(run.games)
                  THEN /\ runs' = [runs EXCEPT ![c] = [counted EXCEPT !.pc = "sleep",
                                                                      !.fault = "none"]]
                       /\ UNCHANGED isFetchingAchievements
                  ELSE /\ runs' = [runs EXCEPT ![c] = Finished(counted, "done")]
                       /\ isFetchingAchievements' =
                              FlagAfterExit(run.fetchId, isFetchingAchievements)
    /\ fetchCall' = "none"
    /\ UNCHANGED <<steamId, apiKey, apiMode, apiFailCount, isLoading, achievementFetchId,
                   loadingOverlay, apiKeyPrompt, indexDefined, fetches, input, output, refreshCountdown, display>>

\* the batch settles: a per-game request that cannot connect returns null,
\* one that is never answered keeps Promise.all pending
BatchResolve(c) ==
    /\ runs[c].pc = "await"
    /\ BatchSettles(c)
    /\ \E failed \in FailSets(Batch(runs[c])) :
          /\ fetch(runs[c].fault) # "answered" => failed = FailSet(Batch(runs[c]), "all")
          /\ BatchResolveWith(c, failed)

\* resumption after `await sleep(CONFIG.ACHIEVEMENT_DELAY)`: i += 10, loop top
SleepDone(c) ==
    /\ runs[c].pc = "sleep"
    /\ LET run == runs[c] IN
       IF IsStale(run.fetchId)
       THEN /\ runs' = [runs EXCEPT ![c] = Finished(run, "cancelled")]
            /\ isFetchingAchievements' = FlagAfterExit(run.fetchId, isFetchingAchievements)
       ELSE /\ runs' = [runs EXCEPT ![c] = [run EXCEPT !.pc = "await",
                                                      !.i = run.i + ACHIEVEMENT_PARALLEL,
                                                      !.account = steamId,
                                                      !.key = apiKey]]
            /\ UNCHANGED isFetchingAchievements
    /\ fetchCall' = "none"
    /\ UNCHANGED <<steamId, apiKey, apiMode, data, allGames, apiFailCount, isLoading,
                   achievementFetchId, loadingOverlay, apiKeyPrompt, indexDefined,
                   fetches, input, output, refreshCountdown, display>>

(***************************************************************************)
(* fetchWithApi / fetchWithXml: the resumption of fetchData's cycle c      *)
(* when its requests have settled                                          *)
(***************************************************************************)
Ended(f, how) == [f EXCEPT !.pc = how, !.startData = NULL, !.startGames = << >>]

\* catch (error) of fetchData around fetchWithApi, and what follows it
ApiFailed(c) ==
    /\ apiFailCount' = apiFailCount + 1
    /\ IF ReachedFailLimit(apiFailCount')
       THEN /\ loadingOverlay' = FALSE
            /\ apiKeyPrompt' = TRUE
            /\ isLoading' = FALSE
            /\ fetches' = [fetches EXCEPT ![c] = [Ended(fetches[c], "prompt") EXCEPT !.prompted = TRUE]]
       ELSE /\ fetches' = [fetches EXCEPT ![c] = [fetches[c] EXCEPT !.pc = "xml",
                                                              !.notice = TRUE,
                                                              !.xmlRequested = TRUE,
                                                              !.account = steamId,
                                                              !.fault = "none"]]
            /\ UNCHANGED <<loadingOverlay, apiKeyPrompt, isLoading>>

\* the rest of fetchWithApi, and of fetchData behind it, when the five
\* requests have settled with resp
ApiResolveWith(c, resp) ==
    /\ fetches[c].pc = "api"
    /\ IF LoadBearingFails(resp)
       THEN /\ ApiFailed(c)
            /\ UNCHANGED <<data, allGames, isFetchingAchievements, runs, display>>
       ELSE
          LET games == resp.games
              profile == ApiProfile(fetches[c].account, games, ExtraData(resp))
              built == ApiGames(games)
          IN /\ allGames' = built
             /\ IF RenderThrows(built)
                THEN /\ data' = profile
                     /\ display' = renderProfile(display, profile)
                     /\ ApiFailed(c)
                     /\ UNCHANGED <<isFetchingAchievements, runs>>
                ELSE LET call == EnrichmentCall(games, achievementFetchId, profile,
                                                isFetchingAchievements)
                     IN /\ data' = call.data
                        /\ display' = renderGamesList(renderProfile(display, profile), built)
                        /\ isFetchingAchievements' = call.flag
                        /\ runs' = IF call.run = NoRun THEN runs
                                   ELSE [runs EXCEPT ![c] = call.run]
                        /\ loadingOverlay' = FALSE
                        /\ isLoading' = FALSE
                        /\ fetches' = [fetches EXCEPT ![c] =
                               [Ended(fetches[c], "published") EXCEPT !.enrichment = call.outcome]]
                        /\ UNCHANGED <<apiFailCount, apiKeyPrompt>>
    /\ fetchCall' = "none"
    /\ UNCHANGED <<steamId, apiKey, apiMode, achievementFetchId, indexDefined,
                   input, output, refreshCountdown>>

\* the requests settle: a load-bearing request that is not answered in time
\* or cannot connect rejects
ApiResolve(c) ==
    /\ fetches[c].pc = "api"
    /\ FetchSettles(c)
    /\ LET settled == fetchWithTimeout(fetches[c].fault)
       IN /\ \E resp \in ApiResponses :
                /\ settled # "answered" => resp = FailedResponse(settled)
                /\ ApiResolveWith(c, resp)

\* the rest of fetchData behind fetchWithXml
XmlReturns(c, how) ==
    /\ fetches' = [fetches EXCEPT ![c] = Ended(fetches[c], how)]
    /\ loadingOverlay' = FALSE
    /\ isLoading' = FALSE
    /\ fetchCall' = "none"
    /\ UNCHANGED <<steamId, apiKey, apiMode, apiFailCount, achievementFetchId,
                   isFetchingAchievements, apiKeyPrompt, indexDefined, runs,
                   input, output, refreshCountdown>>

\* fetchWithXml when the request rejects or the document is rejected:
\* catch (error) { showError(...) }
XmlFailed(c) ==
    /\ fetches[c].pc = "xml"
    /\ display' = showError(display)
    /\ XmlReturns(c, "failed")
    /\ UNCHANGED <<data, allGames>>

\* fetchWithXml when the request is answered with the document doc
XmlParsed(c, doc) ==
    /\ fetches[c].pc = "xml"
    /\ LET profile == parseXmlProfile(fetches[c].account, doc)
       IN /\ allGames' = profile.games
          /\ data' = profile
          /\ IF RenderThrows(profile.games)
             THEN /\ display' = showError(renderProfile(display, profile))
                  /\ XmlReturns(c, "failed")
             ELSE /\ display' = renderGamesList(renderProfile(display, profile),
                                                profile.games)
                  /\ XmlReturns(c, "published")

XmlResolve(c) ==
    /\ FetchSettles(c)
    /\ \/ \E kind \in XmlFailureKinds :
             /\ fetchWithTimeout(fetches[c].fault) # "answered"
                   => kind = fetchWithTimeout(fetches[c].fault)
             /\ XmlFailed(c)
       \/ \E doc \in XmlDocs :
             /\ fetchWithTimeout(fetches[c].fault) = "answered"
             /\ XmlParsed(c, doc)

(***************************************************************************)
(* Settings                                                                *)
(***************************************************************************)
\* the failure counter left alone when a key is stored
setApiKey_KeepCount(key) ==
    IF key # "" /\ key # NoKey
    THEN [apiKey |-> key, apiMode |-> TRUE, apiFailCount |-> apiFailCount]
    ELSE [apiKey |-> NoKey, apiMode |-> FALSE, apiFailCount |-> apiFailCount]

\* setApiKey(key): the new apiKey, apiMode and apiFailCount
setApiKey(key) ==
    IF key # "" /\ key # NoKey
    THEN [apiKey |-> key, apiMode |-> TRUE, apiFailCount |-> 0]
    ELSE [apiKey |-> NoKey, apiMode |-> FALSE, apiFailCount |-> apiFailCount]

\* applySettings with the two input fields holding newSteamId and newApiKey
ApplySettings(newSteamId, newApiKey) ==
    LET idChanged == newSteamId # ""
        keyChanged == newApiKey # apiKey
        set == setApiKey(newApiKey)
    IN /\ steamId' = IF idChanged THEN newSteamId ELSE steamId
       /\ apiKey' = set.apiKey
       /\ apiMode' = set.apiMode
       /\ apiFailCount' = set.apiFailCount
       /\ apiKeyPrompt' = FALSE
       /\ IF idChanged \/ keyChanged
          THEN fetchData(steamId', apiKey', apiMode')
          ELSE /\ fetchCall' = "none"
               /\ UNCHANGED <<isLoading, achievementFetchId, loadingOverlay, fetches>>
       /\ UNCHANGED <<data, allGames, isFetchingAchievements, indexDefined, runs,
                      input, output, refreshCountdown, display>>

\* click on #apiPromptSkip
PromptSkip ==
    /\ apiKeyPrompt
    /\ LET set == setApiKey(NoKey)
       IN /\ apiKey' = set.apiKey
          /\ apiMode' = set.apiMode
          /\ apiFailCount' = set.apiFailCount
    /\ apiKeyPrompt' = FALSE
    /\ fetchData(steamId, apiKey', apiMode')
    /\ UNCHANGED <<steamId, data, allGames, isFetchingAchievements, indexDefined, runs,
                   input, output, refreshCountdown, display>>

\* click on #apiPromptUpdate: closeAllOverlays(); openSettings()
PromptUpdate ==
    /\ apiKeyPrompt
    /\ apiKeyPrompt' = FALSE
    /\ fetchCall' = "none"
    /\ UNCHANGED <<stateVars, loadingOverlay, indexDefined, fetches, runs, input, output, refreshCountdown, display>>

Next ==
    \/ ManualRefresh
    \/ \E c \in Cycles : ApiResolve(c)
    \/ \E c \in Cycles : XmlResolve(c)
    \/ \E c \in Cycles : BatchResolve(c)
    \/ \E c \in Cycles : SleepDone(c)
    \/ \E newSteamId \in SteamIds \cup {""}, newApiKey \in Keys \cup {""} :
          ApplySettings(newSteamId, newApiKey)
    \/ PromptSkip
    \/ PromptUpdate

Spec == Init /\ [][Next]_vars

(***************************************************************************)
(* Properties                                                              *)
(***************************************************************************)
\* the achievement data of the published model: the five aggregate fields
\* of state.data and the achievements field of every game
AggregateOf(profile) ==
    IF profile = NULL \/ "totalAchievements" \notin DOMAIN profile THEN NULL
    ELSE << profile.totalAchievements, profile.totalPossibleAchievements,
            profile.perfectGames, profile.gamesWithAchievements,
            profile.avgAchievementCompletion >>
AchievementsOf(games) ==
    [k \in 1..Len(games) |->
        IF "achievements" \in DOMAIN games[k] THEN games[k].achievements ELSE NULL]

\* cycle c's enrichment run takes a step
RunSteps(c) == RunInFlight(c) /\ runs'[c] # runs[c]

\* cycle c's authenticated attempt is counted as a failure in this step
CountedAsFailure(c) == fetches[c].pc = "api" /\ apiFailCount' = apiFailCount + 1

\* cycle c published an authenticated Profile and its enrichment is over:
\* the run went through every batch, or there was no played game
Completed(c) ==
    /\ fetches[c].pc = "published"
    /\ runs[c].pc = "done" \/ fetches[c].enrichment = "zeroed"

(***************************************************************************)
(* Requests that meet faults: refreshes only, every request in flight may  *)
(* be left without an answer or lose its connection.                       *)
(***************************************************************************)
NextFaults ==
    \/ ManualRefresh
    \/ \E c \in Cycles : ApiResolve(c)
    \/ \E c \in Cycles : XmlResolve(c)
    \/ \E c \in Cycles : BatchResolve(c)
    \/ \E c \in Cycles : SleepDone(c)
    \/ \E c \in Cycles, fault \in Faults : FetchFault(c, fault)
    \/ \E c \in Cycles, fault \in Faults : BatchFault(c, fault)

SpecFaults == Init /\ [][NextFaults]_vars

\* the event loop resumes an async function whose awaited request has
\* settled: the resumptions of fetchWithApi and fetchWithXml are not
\* postponed for ever
SpecFaultsFair ==
    /\ SpecFaults
    /\ \A c \in Cycles : WF_vars(ApiResolve(c)) /\ WF_vars(XmlResolve(c))

(***************************************************************************)
(* One adapter call: the first load, with the answers of the five requests *)
(* of fetchWithApi fixed by input.                                         *)
(***************************************************************************)
InitAdapter == Constructed /\ input \in AllApiResponses

\* init(): the first fetchData()
FirstLoad == achievementFetchId = 0 /\ ManualRefresh

NextAdapter ==
    \/ FirstLoad
    \/ \E c \in Cycles : ApiResolveWith(c, input)
    \/ \E c \in Cycles : XmlResolve(c)

SpecAdapter == InitAdapter /\ [][NextAdapter]_vars

(***************************************************************************)
(* Repeated enrichment: a stored key, an upstream that answers every cycle *)
(* with the owned games input.games and whose per-game requests fail in    *)
(* batch b as input.failing[b] says; a refresh only when nothing is        *)
(* pending.  output keeps what the first completed run published.          *)
(***************************************************************************)
EnrichLibraries == {LibEmpty, LibTwo, LibPair, LibMany}
EnrichInputs == [games : EnrichLibraries, failing : [1..MaxBatches -> FailPatterns]]

InitEnrich == Constructed /\ apiKey \in Keys /\ input \in EnrichInputs

Published == [aggregate |-> AggregateOf(data), achievements |-> AchievementsOf(allGames)]

RefreshWhenIdle ==
    /\ \A c \in Cycles : ~FetchInFlight(c) /\ ~RunInFlight(c)
    /\ fetchData(steamId, apiKey, apiMode)
    /\ output' = IF achievementFetchId = 1 /\ Completed(1) THEN Published ELSE output
    /\ UNCHANGED <<steamId, apiKey, apiMode, data, allGames, apiFailCount,
                   isFetchingAchievements, apiKeyPrompt, indexDefined, runs, input,
                   refreshCountdown, display>>

\* the batch of cycle c's run settles as the scenario says
ScenarioBatch(c) ==
    /\ runs[c].pc = "await"
    /\ runs[c].i \div ACHIEVEMENT_PARALLEL + 1 \in 1..MaxBatches
    /\ BatchResolveWith(c, FailSet(Batch(runs[c]),
                                   input.failing[runs[c].i \div ACHIEVEMENT_PARALLEL + 1]))

NextEnrich ==
    \/ RefreshWhenIdle
    \/ \E c \in Cycles : ApiResolveWith(c, OkResponse(input.games, {}))
    \/ \E c \in Cycles : ScenarioBatch(c)
    \/ \E c \in Cycles : SleepDone(c)

SpecEnrich == InitEnrich /\ [][NextEnrich]_vars

(***************************************************************************)
(* Enrichment that meets an error: the scenario of SpecEnrich with         *)
(* refreshes at any time, and a page whose binding for the identifier      *)
(* `index`, read by the template of renderGamesList, goes away while a run *)
(* is under way; the next renderGamesList() of the run (line 777) raises   *)
(* inside the try of fetchAchievementsInBackground.                        *)
(***************************************************************************)
IndexBindingLost ==
    /\ indexDefined
    /\ \E c \in Cycles : RunInFlight(c)
    /\ indexDefined' = FALSE
    /\ fetchCall' = "none"
    /\ UNCHANGED <<stateVars, loadingOverlay, apiKeyPrompt, fetches, runs, input, output,
                   refreshCountdown, display>>

NextEnrichError ==
    \/ ManualRefresh
    \/ \E c \in Cycles : ApiResolveWith(c, OkResponse(input.games, {}))
    \/ \E c \in Cycles : ScenarioBatch(c)
    \/ \E c \in Cycles : SleepDone(c)
    \/ IndexBindingLost

SpecEnrichError == InitEnrich /\ [][NextEnrichError]_vars

(***************************************************************************)
(* The public feed alone: no stored key, the first load, and a feed that   *)
(* answers with the document input.                                        *)
(***************************************************************************)
InitParse == Constructed /\ apiKey = NoKey /\ input \in FeedDocs

NextParse ==
    \/ FirstLoad
    \/ \E c \in Cycles : FetchSettles(c) /\ XmlParsed(c, input)

SpecParse == InitParse /\ [][NextParse]_vars

(***************************************************************************)
(* The refresh timer alone: ticks and clicks on the refresh button.        *)
(***************************************************************************)
NextTimer ==
    \/ TimerTick
    \/ manualRefresh

SpecTimer == Init /\ [][NextTimer]_vars

(***************************************************************************)
(* The games list of one load: a feed input.doc when no key is stored,     *)
(* else the owned games input.games enriched as input.failing says, and    *)
(* clicks on the sort menu and the show-more button.                       *)
(***************************************************************************)
SortInputs ==
    {[doc |-> d] : d \in {XmlDocTies} \cup {f \in FeedDocs : Len(f) # 1}}
        \cup [games : {LibEmpty, LibTwo, LibSort}, failing : [1..MaxBatches -> FailPatterns]]

InitSort == Constructed /\ input \in SortInputs /\ (apiKey = NoKey <=> "doc" \in DOMAIN input)

NextSort ==
    \/ FirstLoad
    \/ \E c \in Cycles : "doc" \in DOMAIN input /\ FetchSettles(c) /\ XmlParsed(c, input.doc)
    \/ \E c \in Cycles : ApiResolveWith(c, OkResponse(input.games, {}))
    \/ \E c \in Cycles : ScenarioBatch(c)
    \/ \E sort \in SortKeys : SortChosen(sort)
    \/ ShowMoreClicked

SpecSort == InitSort /\ [][NextSort]_vars

\* C1: a step of an enrichment run whose captured fetchId differs from the
\* current token changes no Game.achievements field and none of the five
\* aggregate fields; every step of a run that changes them is taken by the
\* run whose fetchId is the current token.
C1_StaleRunNeverWrites ==
    [][\A c \in Cycles :
          (RunSteps(c) /\ runs[c].fetchId # achievementFetchId)
             => /\ AggregateOf(data') = AggregateOf(data)
                /\ AchievementsOf(allGames') = AchievementsOf(allGames)]_vars

\* a superseded run has resumed and ended after the newer cycle published
C1_Witness ==
    \E c \in Cycles :
        /\ runs[c].pc = "cancelled"
        /\ runs[c].fetchId # achievementFetchId
        /\ fetches[achievementFetchId].pc = "published"

\* C2: a fetchData() call made while a fetch is Loading changes neither the
\* token, state.data, state.allGames nor any activation and issues no
\* request, and the failure counter only as setApiKey of the same handler
\* resets it; at most one primary fetch is in flight, and the Loading flag
\* is set exactly while one is.
C2_ReentryIsNoOp ==
    /\ [](/\ Cardinality({c \in Cycles : FetchInFlight(c)}) <= 1
          /\ isLoading <=> (\E c \in Cycles : FetchInFlight(c)))
    /\ [][fetchCall' = "skipped"
            => /\ isLoading /\ isLoading'
               /\ UNCHANGED <<achievementFetchId, data, allGames, fetches, runs>>
               /\ \/ apiFailCount' = apiFailCount
                  \/ apiFailCount' = 0 /\ apiKey' # NoKey]_vars

\* a call arrived while cycle c was waiting for its requests
C2_Witness == fetchCall = "skipped" /\ \E c \in Cycles : FetchInFlight(c)

\* C3: the authenticated failure that raises the counter to 2 sets
\* state.apiMode to false and shows the credential prompt; the failure that
\* raises it to 1 does not show the prompt.
C3_SecondFailureDisablesApiMode ==
    [][\A c \in Cycles :
          CountedAsFailure(c)
             => IF apiFailCount' = 2
                THEN ~apiMode' /\ apiKeyPrompt' /\ fetches'[c].prompted
                ELSE apiFailCount' = 1 => ~fetches'[c].prompted]_vars

\* C4: the step that publishes an authenticated Profile leaves the failure
\* counter at 0.
C4_SuccessResetsCounter ==
    [][\A c \in Cycles :
          (fetches[c].pc = "api" /\ fetches'[c].pc = "published")
             => apiFailCount' = 0]_vars

\* C5: in the step in which a cycle's authenticated attempt is counted as a
\* failure, and in the step in which its public-source attempt reports an
\* error, state.data and state.allGames hold the values they had when the
\* cycle started.
C5_FailureKeepsSnapshot ==
    [][\A c \in Cycles :
          (CountedAsFailure(c) \/ (FetchInFlight(c) /\ fetches'[c].pc = "failed"))
             => /\ data' = fetches[c].startData
                /\ allGames' = fetches[c].startGames]_vars

\* C6: when nothing is pending any more (no fetch Loading, no enrichment run
\* in flight) and the current Profile is the authenticated Profile published
\* by the latest cycle with at least one played game, its achievement
\* aggregate is numeric: without a further refresh nothing can change it, so
\* a state violating this refutes that the aggregate eventually becomes
\* numeric.
C6_NewerEnrichmentRuns ==
    (/\ achievementFetchId > 0
     /\ fetches[achievementFetchId].pc = "published"
     /\ IsApiProfile(data)
     /\ data.playedGames > 0
     /\ \A c \in Cycles : ~FetchInFlight(c) /\ ~RunInFlight(c))
        => data.totalAchievements # NULL

\* C7: the authenticated failure that leaves the counter below 2 continues
\* the same cycle with the public-source request and the basic-mode notice,
\* without the prompt and without touching apiMode or apiKey; an accepted
\* refresh with apiMode and a key starts with the authenticated source.
C7_FirstFailureFallsBack ==
    [][/\ \A c \in Cycles :
            (CountedAsFailure(c) /\ apiFailCount' < 2)
               => /\ fetches'[c].pc = "xml"
                  /\ fetches'[c].xmlRequested /\ fetches'[c].notice
                  /\ ~fetches'[c].prompted
                  /\ apiKeyPrompt' = apiKeyPrompt
                  /\ isLoading'
                  /\ apiMode' = apiMode /\ apiKey' = apiKey
       /\ (fetchCall' = "accepted" /\ apiMode' /\ apiKey' # NoKey)
             => \E c \in Cycles : fetches[c].pc = "none" /\ fetches'[c].pc = "api"]_vars

\* a cycle is in its public-source attempt after its authenticated attempt
\* failed, with authenticated mode still enabled
C7_Witness ==
    \E c \in Cycles : fetches[c].pc = "xml" /\ fetches[c].notice /\ apiMode /\ apiFailCount = 1

\* C8: the step in which the counter reaches 2 ends the cycle at the
\* prompt with no public-source request issued in the cycle, state.data and
\* state.allGames as at the start of the cycle, the Loading flag cleared and
\* the busy indicator hidden.
C8_LimitStopsWithoutFallback ==
    [][\A c \in Cycles :
          (CountedAsFailure(c) /\ apiFailCount' = 2)
             => /\ fetches'[c].pc = "prompt"
                /\ ~fetches'[c].xmlRequested
                /\ data' = fetches[c].startData
                /\ allGames' = fetches[c].startGames
                /\ ~isLoading' /\ ~loadingOverlay']_vars

\* C9: the token changes only in an accepted fetchData() call and then by
\* exactly +1, in the step that issues the cycle's first request; an
\* enrichment run started by cycle c has captured fetchId = c.
C9_TokenMonotonic ==
    [][/\ achievementFetchId' # achievementFetchId => fetchCall' = "accepted"
       /\ fetchCall' = "accepted"
             => /\ achievementFetchId' = achievementFetchId + 1
                /\ fetches[achievementFetchId'].pc = "none"
                /\ fetches'[achievementFetchId'].pc \in {"api", "xml"}
       /\ \A c \in Cycles :
             (runs[c].pc = "none" /\ runs'[c].pc # "none")
                => runs'[c].fetchId = c /\ c = achievementFetchId']_vars

\* the second cycle has started its own enrichment run
C9_Witness == achievementFetchId = 2 /\ RunInFlight(2) /\ runs[2].fetchId = 2

\* C10: at most one enrichment run is between taking the in-flight flag and
\* its exit.
C10_SingleFlight == Cardinality({c \in Cycles : RunInFlight(c)}) <= 1

\* a newer cycle published played games while the superseded run of an
\* older cycle was still awaiting its batch, and its enrichment call
\* returned at the guard
C10_Witness ==
    \E c \in Cycles :
        /\ RunInFlight(c)
        /\ runs[c].fetchId # achievementFetchId
        /\ fetches[achievementFetchId].pc = "published"
        /\ fetches[achievementFetchId].enrichment = "refused"

\* C11: the step that publishes an authenticated Profile clears the Loading
\* flag and the busy indicator while the run it starts is still waiting for
\* its first batch (index 0, aggregate still null); a fetchData() call made
\* while the run of the current token is in flight is accepted and advances
\* the token.
C11_EnrichmentDoesNotBlock ==
    [][/\ \A c \in Cycles :
            (fetches[c].pc = "api" /\ fetches'[c].pc = "published")
               => /\ ~isLoading' /\ ~loadingOverlay'
                  /\ IsApiProfile(data')
                  /\ RunInFlight(c)'
                        => /\ runs'[c].pc = "await" /\ runs'[c].i = 0
                           /\ data'.totalAchievements = NULL
       /\ (/\ fetchCall' # "none"
           /\ \E c \in Cycles : RunInFlight(c) /\ runs[c].fetchId = achievementFetchId)
             => /\ fetchCall' = "accepted"
                /\ achievementFetchId' = achievementFetchId + 1
                /\ fetches'[achievementFetchId'].pc \in {"api", "xml"}]_vars

\* a refresh was accepted while the run of the previous cycle was waiting
\* for its first batch
C11_Witness ==
    /\ fetchCall = "accepted"
    /\ \E c \in Cycles :
          /\ runs[c].pc = "await" /\ runs[c].i = 0
          /\ achievementFetchId = c + 1

\* C12: a step that changes state.steamId or state.apiKey starts a fetch
\* cycle, and the Profile a cycle publishes is the one of the account
\* identifier in effect at the publication, fetched with the credential in
\* effect if it is an authenticated Profile.
C12_SettingsChangeRefreshes ==
    [][/\ (steamId' # steamId \/ apiKey' # apiKey) => fetchCall' = "accepted"
       /\ \A c \in Cycles :
            (FetchInFlight(c) /\ fetches'[c].pc = "published")
               => /\ data'.steamId64 = steamId'
                  /\ IsApiProfile(data') => fetches[c].key = apiKey']_vars

\* C13: whatever befalls the requests an activation is waiting for, they
\* settle, as answered or as failed: a cycle waiting for its requests can
\* resume, a run waiting for its batch can resume.
C13_EveryRequestSettles ==
    \A c \in Cycles :
        /\ FetchInFlight(c) => FetchSettles(c)
        /\ runs[c].pc = "await" => BatchSettles(c)

\* C14: a cycle whose request is never answered can still settle, and the
\* step that settles a cycle whose request is never answered or cannot
\* connect is the same in both cases: an authenticated attempt raises the
\* counter by one, leaves state.data, state.allGames and the runs alone and
\* continues with the public source below the limit of 2, else ends at the
\* prompt; a public-source attempt ends the cycle Failed with state.data
\* and state.allGames unchanged and the Loading flag cleared.
C14_TimeoutHandledAsConnectivityFailure ==
    /\ [](\A c \in Cycles :
            (FetchInFlight(c) /\ fetches[c].fault = "hang") => FetchSettles(c))
    /\ [][\A c \in Cycles :
            (FetchInFlight(c) /\ fetches[c].fault \in Faults /\ fetches'[c] # fetches[c])
               => /\ data' = data /\ allGames' = allGames /\ runs' = runs
                  /\ IF fetches[c].pc = "api"
                     THEN /\ apiFailCount' = apiFailCount + 1
                          /\ IF apiFailCount' >= 2
                             THEN /\ fetches'[c].pc = "prompt" /\ apiKeyPrompt'
                                  /\ ~fetches'[c].xmlRequested
                                  /\ ~isLoading'
                             ELSE /\ fetches'[c].pc = "xml" /\ fetches'[c].notice
                                  /\ isLoading'
                     ELSE /\ fetches'[c].pc = "failed"
                          /\ apiFailCount' = apiFailCount
                          /\ ~isLoading' /\ ~loadingOverlay']_vars

\* a cycle ended at the prompt because its load-bearing request was never
\* answered
C14_Witness ==
    \E c \in Cycles :
        fetches[c].pc = "prompt" /\ fetches[c].fault = "hang" /\ apiFailCount = 2

\* a value that reads as null (null or undefined)
IsNullish(x) == x = NULL \/ x = UNDEFINED

\* C15: when both load-bearing requests answer with valid bodies, the step
\* that settles the authenticated attempt publishes, leaves the failure
\* counter alone, and each of steamLevel, totalXP, badgeCount, friendCount
\* is null exactly when the lookup it derives from failed.
C15_AuxiliaryLookupsOptional ==
    [][\A c \in Cycles :
          (/\ fetches[c].pc = "api" /\ fetches'[c] # fetches[c]
           /\ input.owned = "ok" /\ input.player = "ok")
             => /\ fetches'[c].pc = "published"
                /\ apiFailCount' = apiFailCount
                /\ IsNullish(data'.steamLevel) <=> ~input.level.ok
                /\ IsNullish(data'.totalXP) <=> ~input.badges.ok
                /\ IsNullish(data'.badgeCount) <=> ~input.badges.ok
                /\ IsNullish(data'.friendCount) <=> ~input.friends.ok]_vars

\* C16: when a load-bearing request answers with a non-success status, a
\* body without the response envelope or an empty player list, the step
\* that settles the authenticated attempt counts a failure and changes
\* neither state.data nor state.allGames, starts no enrichment run and does
\* not take the in-flight flag.
C16_FailsFast ==
    [][\A c \in Cycles :
          (/\ fetches[c].pc = "api" /\ fetches'[c] # fetches[c]
           /\ \/ input.owned \in {"status", "envelope"}
              \/ input.player \in {"status", "envelope", "no-player"})
             => /\ CountedAsFailure(c)
                /\ fetches'[c].pc # "published"
                /\ data' = data /\ allGames' = allGames
                /\ runs' = runs
                /\ isFetchingAchievements' = isFetchingAchievements]_vars

\* the first load fell back to the public source because the player list
\* was empty, with nothing assigned
C16_Witness ==
    /\ input # NoInput /\ input.player = "no-player" /\ input.owned = "ok"
    /\ fetches[1].pc = "xml" /\ fetches[1].notice
    /\ data = NULL /\ allGames = << >>

\* C17, as stated: whenever the latest cycle has published, the current
\* Profile carries playedGames and unplayedGames and they add up to
\* totalGames.
C17_PlayedPlusUnplayed ==
    (achievementFetchId > 0 /\ fetches[achievementFetchId].pc = "published")
        => /\ "playedGames" \in DOMAIN data /\ "unplayedGames" \in DOMAIN data
           /\ data.totalGames = data.playedGames + data.unplayedGames

\* C17, amended: every Profile built by the authenticated adapter has
\* totalGames = playedGames + unplayedGames = the length of the owned-games
\* list, and unplayedGames is the number of owned games whose all-time
\* minutes are zero or absent.
C17_AuthenticatedPlayedPlusUnplayed ==
    IsApiProfile(data)
        => /\ data.totalGames = data.playedGames + data.unplayedGames
           /\ data.totalGames = Len(input.games)
           /\ data.unplayedGames =
                 Cardinality({k \in 1..Len(input.games) :
                                 \/ "playtime_forever" \notin DOMAIN input.games[k]
                                 \/ input.games[k].playtime_forever = 0})

\* an authenticated Profile of a library with a game that has no playtime
\* field
C17_Witness ==
    /\ IsApiProfile(data) /\ input.games = LibUntracked
    /\ data.unplayedGames = 2 /\ data.playedGames = 1
    /\ fetches[1].pc = "published"

\* C18: in every state the five aggregate fields of an authenticated
\* Profile are all null or all numeric.
C18_AggregateAllOrNothing ==
    IsApiProfile(data)
        => LET nulls == {k \in 1..5 : AggregateOf(data)[k] = NULL}
           IN nulls = {} \/ nulls = 1..5

\* the aggregate is numeric while the run sleeps between two batches
C18_Witness ==
    /\ IsApiProfile(data) /\ data.totalAchievements # NULL
    /\ \E c \in Cycles : runs[c].pc = "sleep" /\ runs[c].fetchId = achievementFetchId

RECURSIVE SumFn(_, _)
SumFn(f, n) == IF n = 0 THEN 0 ELSE f[n] + SumFn(f, n - 1)

\* the answer of the scenario for the k-th played game of input.games: the
\* counts of the upstream, or NULL when its request fails or no list exists
ScenarioAnswer(k) ==
    LET pattern == input.failing[(k - 1) \div ACHIEVEMENT_PARALLEL + 1]
        fails == pattern = "all" \/ (pattern = "first" /\ (k - 1) % ACHIEVEMENT_PARALLEL = 0)
    IN IF fails THEN NULL ELSE UpstreamAchievements(GamesWithPlaytime(input.games)[k].appid)

\* the totals over the first n played games of input.games
ScenarioTotals(n) ==
    LET counted == {k \in 1..n : ScenarioAnswer(k) # NULL /\ ScenarioAnswer(k).total > 0}
        achieved == SumFn([k \in 1..n |-> IF k \in counted THEN ScenarioAnswer(k).achieved ELSE 0], n)
        possible == SumFn([k \in 1..n |-> IF k \in counted THEN ScenarioAnswer(k).total ELSE 0], n)
    IN << Num(achieved), Num(possible),
          Num(Cardinality({k \in counted : ScenarioAnswer(k).achieved = ScenarioAnswer(k).total})),
          Num(Cardinality(counted)),
          Num(IF counted = {} THEN Rat(0, 1) ELSE Rat(100 * achieved, possible)) >>

\* C19: while the Profile of the latest cycle is current, its aggregate is
\* null before the first batch has settled and afterwards the totals over
\* the played games of all batches settled so far that answered with
\* total > 0 (all played games once the run has completed), the average
\* being 100 * achieved / possible or 0; for the games (5/10) and (10/10)
\* the completed run gives 15, 20, 1 perfect game and 75.
C19_AggregateIsRunningTotal ==
    LET c == achievementFetchId
        played == Len(GamesWithPlaytime(input.games))
        settled == CASE runs[c].pc = "await" -> runs[c].i
                     [] runs[c].pc = "sleep" -> runs[c].i + ACHIEVEMENT_PARALLEL
                     [] OTHER -> played
    IN (c > 0 /\ fetches[c].pc = "published")
          => /\ IF runs[c].pc = "await" /\ runs[c].i = 0
                THEN AggregateOf(data) = << NULL, NULL, NULL, NULL, NULL >>
                ELSE AggregateOf(data) = ScenarioTotals(settled)
             /\ (Completed(c) /\ input.games = LibPair /\ input.failing[1] = "none")
                   => AggregateOf(data) = << Num(15), Num(20), Num(1), Num(2), Num(Rat(75, 1)) >>

\* a run over eleven played games has completed after two batches without
\* a failing request
C19_Witness ==
    /\ achievementFetchId > 0 /\ Completed(achievementFetchId)
    /\ input.games = LibMany
    /\ \A b \in 1..MaxBatches : input.failing[b] = "none"
    /\ AggregateOf(data) = << Num(45), Num(60), Num(3), Num(6), Num(Rat(75, 1)) >>

\* C20: when a later cycle over the same owned games and the same per-game
\* answers has completed its enrichment, the five aggregate fields and the
\* achievements field of every game equal those the first completed run
\* left.
C20_EnrichmentIdempotent ==
    (/\ achievementFetchId > 1
     /\ Completed(achievementFetchId)
     /\ output # NoOutput)
        => Published = output

\* the second run over eleven played games has completed
C20_Witness ==
    /\ achievementFetchId = 2 /\ runs[2].pc = "done"
    /\ fetches[2].pc = "published"
    /\ output # NoOutput /\ output.aggregate[1] # Num(0)
    /\ input.games = LibMany

\* the number a well-formed hours text denotes: every comma removed, and 0
\* for an absent text
HoursDenoted(s) ==
    IF Len(s) = 0 THEN Rat(0, 1) ELSE parseFloat(SelectSeq(s, LAMBDA ch : ch # ","))

\* C21: for every hoursOnRecord text made of digit groups joined by any
\* number of commas, optionally followed by a decimal part, the hoursTotal
\* of the parsed game is the number the text denotes with all commas removed
C21_ThousandsSeparatorsStripped ==
    data # NULL
        => \A i \in 1..Len(input) :
              WellFormedHours(input[i].hoursOnRecord)
                  => data.games[i].hoursTotal = HoursDenoted(input[i].hoursOnRecord)

RECURSIVE SumDenoted(_, _, _)
SumDenoted(doc, field, i) ==
    IF i > Len(doc) THEN Rat(0, 1)
    ELSE RatAdd(HoursDenoted(doc[i][field]), SumDenoted(doc, field, i + 1))

\* C22: the profile parsed from the public feed has totalHours and
\* recentHours equal to the sums of hoursOnRecord and hoursPlayed over the
\* games of the feed and totalGames equal to their number; the feed
\* "1,234", "10", "0.5" gives totalHours 1244.5 and 3 games
C22_FeedTotalsAreSums ==
    data # NULL
        => /\ data.totalGames = Len(input)
           /\ data.totalHours = SumDenoted(input, "hoursOnRecord", 1)
           /\ data.recentHours = SumDenoted(input, "hoursPlayed", 1)
           /\ input = XmlDocThree => data.totalHours = Rat(2489, 2) /\ data.totalGames = 3

\* C27: the countdown stays within 1..300; a step that invokes fetchData
\* leaves it at 300; the timer invokes fetchData exactly in the tick taken
\* at countdown 1; every other tick lowers the countdown by one
C27_RefreshEveryFiveMinutes ==
    /\ [](refreshCountdown \in 1..300)
    /\ [][LET refreshed == fetchCall' # "none"
          IN /\ refreshed => refreshCountdown' = 300
             /\ refreshCountdown = 1 => refreshed
             /\ (refreshed /\ output' = [tracked |-> "auto_refresh"]) => refreshCountdown = 1
             /\ ~refreshed => refreshCountdown' = refreshCountdown - 1]_vars

\* an automatic refresh was accepted and the countdown is back at 300
C27_Witness ==
    /\ output = [tracked |-> "auto_refresh"]
    /\ fetchCall = "accepted"
    /\ refreshCountdown = 300

\* the all-time minutes of the owned games of input, summed
OwnedMinutes ==
    SumFn([k \in 1..Len(input.games) |->
              IF "playtime_forever" \in DOMAIN input.games[k]
              THEN input.games[k].playtime_forever ELSE 0],
          Len(input.games))

\* C23: every Profile built by the authenticated adapter has totalHours =
\* (sum of playtime_forever) / 60 and completion ratio = playedGames /
\* totalGames; playtimes [120, 0] give totalHours 2, playedGames 1,
\* unplayedGames 1 and completion ratio 0.5
C23_HoursAndCompletionRatio ==
    IsApiProfile(data)
        => /\ data.totalHours = Rat(OwnedMinutes, 60)
           /\ data.totalGames > 0 => data.completionRate = Rat(data.playedGames, data.totalGames)
           /\ input.games = LibTwo
                 => /\ data.totalHours = Rat(2, 1)
                    /\ data.playedGames = 1 /\ data.unplayedGames = 1
                    /\ data.completionRate = Rat(1, 2)

\* C23, amended: totalHours = (sum of playtime_forever) / 60 and the
\* completion rate is the percentage 100 * playedGames / totalGames, 0 for
\* an empty library; playtimes [120, 0] give totalHours 2, playedGames 1,
\* unplayedGames 1 and completion rate 50
C23_HoursAndCompletionPercentage ==
    IsApiProfile(data)
        => /\ data.totalHours = Rat(OwnedMinutes, 60)
           /\ data.completionRate =
                 IF data.totalGames > 0
                 THEN Rat(100 * data.playedGames, data.totalGames) ELSE Rat(0, 1)
           /\ input.games = LibTwo
                 => /\ data.totalHours = Rat(2, 1)
                    /\ data.playedGames = 1 /\ data.unplayedGames = 1
                    /\ data.completionRate = Rat(50, 1)

\* the authenticated Profile of the library with playtimes [120, 0] is on
\* display
C23_Witness ==
    /\ IsApiProfile(data) /\ input.games = LibTwo
    /\ data.completionRate = Rat(50, 1)
    /\ fetches[1].pc = "published"
    /\ display.totalHours = [units |-> 2]

\* shown is games rearranged so that a game comes after the games that are
\* Above it and after the earlier games that are level with it
StablyOrdered(shown, games, Above(_, _)) ==
    /\ Len(shown) = Len(games)
    /\ \A i \in 1..Len(games) :
          LET above == {j \in 1..Len(games) : Above(games[j], games[i])}
              level == {j \in 1..i - 1 : ~Above(games[j], games[i])
                                          /\ ~Above(games[i], games[j])}
          IN shown[1 + Cardinality(above) + Cardinality(level)] = games[i]

MoreHours(a, b) == a.hoursTotal.n * b.hoursTotal.d > b.hoursTotal.n * a.hoursTotal.d

\* C24: sorting by all-time hours returns a permutation of the collection in
\* non-increasing hoursTotal order in which games with equal hoursTotal keep
\* their input order, for every collection including the empty one
C24_AllTimeSortStable ==
    (output # NoOutput /\ output.sortBy = "alltime")
        => /\ StablyOrdered(output.shown, output.games, MoreHours)
           /\ \A i \in 1..Len(output.shown) - 1 :
                 ~MoreHours(output.shown[i + 1], output.shown[i])

\* a feed out of order with two games of equal hours was sorted by all-time
\* hours
C24_Witness ==
    /\ output # NoOutput /\ output.sortBy = "alltime"
    /\ Len(output.games) = 3
    /\ MoreHours(output.games[2], output.games[1])
    /\ output.games[2].hoursTotal = output.games[3].hoursTotal
    /\ output.shown = << output.games[2], output.games[3], output.games[1] >>

HasAchievements(game) == "achievements" \in DOMAIN game /\ game.achievements # NULL

HigherPercent(a, b) ==
    /\ HasAchievements(a)
    /\ HasAchievements(b) => a.achievements.percent > b.achievements.percent

\* C25: sorting by achievement completion orders the games by descending
\* percent, every game without achievement data after every game with data,
\* a game at 0 percent included; under every sort key state.allGames keeps
\* its order and contents, and the order returned is determined by the
\* collection and the key
C25_CompletionSortOnCopy ==
    output # NoOutput
        => /\ output.allGames = output.games
           /\ output.sortBy = "completion"
                 => /\ StablyOrdered(output.shown, output.games, HigherPercent)
                    /\ \A i, j \in 1..Len(output.shown) :
                          (HasAchievements(output.shown[i]) /\ ~HasAchievements(output.shown[j]))
                              => i < j

\* enriched games sorted by completion: a game at 0 percent, and after it a
\* game without achievement data that stood before it in state.allGames
C25_Witness ==
    /\ output # NoOutput /\ output.sortBy = "completion"
    /\ output.games = allGames
    /\ \E i, j \in 1..Len(output.shown) :
          /\ i < j
          /\ HasAchievements(output.shown[i]) /\ output.shown[i].achievements.percent = 0
          /\ ~HasAchievements(output.shown[j])
          /\ output.games[1] = output.shown[j]

C28_FlagOnlyWhileRunning ==
    isFetchingAchievements => \E c \in Cycles : RunInFlight(c)

\* C29: a valid response with a non-empty game list is never reported as a
\* failure: the cycle that receives it ends Published with the games on
\* display, the consecutive-failure counter is not incremented, no error is
\* displayed, and after an authenticated response with a played game
\* enrichment is started
C29_ValidProfileIsPublished ==
    [][\A c \in Cycles :
          /\ (/\ fetches[c].pc = "api" /\ fetches'[c].pc # "api"
              /\ input.owned = "ok" /\ input.player = "ok" /\ Len(input.games) > 0)
                => /\ fetches'[c].pc = "published"
                   /\ apiFailCount' = apiFailCount
                   /\ display'.gamesList = "games"
                   /\ Len(GamesWithPlaytime(input.games)) > 0 => RunInFlight(c)'
          /\ (/\ fetches[c].pc = "xml" /\ fetches'[c].pc # "xml"
              /\ data' # data /\ Len(data'.games) > 0)
                => /\ fetches'[c].pc = "published"
                   /\ display'.gamesList = "games"]_vars

\* C30: every accepted refresh terminates when each request resolves, fails
\* or times out: the cycle ends Published, Failed or with the prompt, and
\* whenever the latest cycle has ended the Loading flag is false and the
\* busy overlay is hidden, so that a later refresh is accepted
C30_RefreshTerminates ==
    /\ \A c \in Cycles :
          FetchInFlight(c) ~> fetches[c].pc \in {"published", "failed", "prompt"}
    /\ [](\A c \in Cycles :
             (c = achievementFetchId /\ fetches[c].pc \in {"published", "failed", "prompt"})
                 => ~isLoading /\ ~loadingOverlay /\ ~AlreadyLoading)

\* a cycle whose request was never answered ended Failed by the timeout,
\* with the Loading flag false and the overlay hidden
C30_Witness ==
    /\ achievementFetchId > 0
    /\ fetches[achievementFetchId].pc = "failed"
    /\ fetches[achievementFetchId].fault = "hang"
    /\ ~isLoading /\ ~loadingOverlay

\* C31: all requests of one fetch cycle use the account identifier and the
\* credential in effect when the cycle started: the fallback request asks
\* for the account the authenticated requests asked for, and the per-game
\* requests a current run is waiting for ask for the account of the
\* published Profile with the credential of its cycle
C31_OneAccountPerCycle ==
    /\ [][\A c \in Cycles :
             (fetches[c].pc = "api" /\ fetches'[c].pc = "xml")
                 => fetches'[c].account = fetches[c].account]_vars
    /\ [](\A c \in Cycles :
             (runs[c].pc = "await" /\ runs[c].fetchId = achievementFetchId /\ data # NULL)
                 => /\ runs[c].account = data.steamId64
                    /\ fetches[c].pc = "published" => runs[c].key = fetches[c].key)

\* C32: whenever the current Profile was published by the authenticated
\* source (rendering did not raise), no fetch is Loading and no enrichment
\* run is pending, its achievement aggregate is numeric and, if it has a
\* played game, a run went through every batch; this includes the states
\* after a later refresh that ended Failed or with the prompt
C32_AggregateFinalWhenIdle ==
    (/\ IsApiProfile(data)
     /\ ~RenderThrows(allGames)
     /\ \A c \in Cycles : ~FetchInFlight(c) /\ ~RunInFlight(c))
        => /\ data.totalAchievements # NULL
           /\ data.playedGames > 0 => \E c \in Cycles : runs[c].pc = "done"

\* C33: in every reachable state apiMode is true exactly when a key is
\* stored; applySettings with a non-empty key (setApiKey with that key)
\* leaves the failure counter at 0, and a step lowers the counter only by
\* setting it to 0 with a key stored.
C33_ModeIffKey ==
    /\ [](apiMode <=> apiKey # NoKey)
    /\ [][/\ \A newSteamId \in SteamIds \cup {""}, newApiKey \in Keys :
                ApplySettings(newSteamId, newApiKey) => apiFailCount' = 0
          /\ apiFailCount' < apiFailCount
                => apiFailCount' = 0 /\ apiKey' # NoKey /\ apiMode']_vars

\* a key is stored and the counter is back at 0 while the cycle whose
\* authenticated failure was counted is still waiting for the public source
C33_CounterReset ==
    /\ apiMode /\ apiKey # NoKey /\ apiFailCount = 0
    /\ \E c \in Cycles : fetches[c].pc = "xml" /\ fetches[c].notice

\* C34: when an authenticated fetch publishes, the enrichment it starts
\* holds exactly the owned games with nonzero all-time playtime; when there
\* is none, the step itself leaves the zeroed aggregate (0, 0, 0, 0, 0) on
\* the current Profile, starts no run and leaves the single-flight flag as
\* it was.
C34_OnlyPlayedGamesRequested ==
    [][\A c \in Cycles :
          (fetches[c].pc = "api" /\ fetches'[c].pc = "published") =>
             LET played == {k \in 1..Len(allGames') : allGames'[k].hoursTotal # Rat(0, 1)}
                 requested == runs'[c].games
             IN /\ played = {} <=> fetches'[c].enrichment = "zeroed"
                /\ played = {} =>
                      /\ AggregateOf(data') = << Num(0), Num(0), Num(0), Num(0), Num(Rat(0, 1)) >>
                      /\ runs' = runs
                      /\ isFetchingAchievements' = isFetchingAchievements
                /\ runs'[c].pc = "await" =>
                      /\ Len(requested) = Cardinality(played)
                      /\ \A k \in 1..Len(requested) :
                            Minutes(requested[k], "playtime_forever") > 0
                      /\ {requested[k].appid : k \in 1..Len(requested)}
                            = {allGames'[k].appid : k \in played}]_vars

\* a library without a played game was published while the run of an
\* earlier cycle still holds the flag: the aggregate is zeroed, no run
C34_ZeroedWhileFlagHeld ==
    \E c \in Cycles :
       /\ fetches[c].pc = "published" /\ fetches[c].enrichment = "zeroed"
       /\ runs[c] = NoRun
       /\ isFetchingAchievements
       /\ AggregateOf(data) = << Num(0), Num(0), Num(0), Num(0), Num(Rat(0, 1)) >>

\* C35: whatever per-game requests of a batch fail, the step that processes
\* the batch leaves null on the games whose request failed, writes the
\* answer on the other games with a non-empty achievement list and counts
\* them in the aggregate, and the run goes on to its next batch or ends as
\* completed, never as failed.
C35_PerGameFailureAbsorbed ==
    [][\A c \in Cycles :
          (runs[c].pc = "await" /\ runs'[c] # runs[c]) =>
             LET requested == runs[c].games
                 n == IF runs[c].i + ACHIEVEMENT_PARALLEL < Len(requested)
                      THEN runs[c].i + ACHIEVEMENT_PARALLEL ELSE Len(requested)
             IN /\ \A k \in (runs[c].i + 1)..n :
                      LET written == allGames'[FindIndex(allGames', requested[k].appid)].achievements
                          answer == ScenarioAnswer(k)
                      IN IF answer = NULL \/ answer.total = 0
                         THEN written = NULL
                         ELSE /\ written # NULL
                              /\ written.achieved = answer.achieved
                              /\ written.total = answer.total
                /\ AggregateOf(data') = ScenarioTotals(n)
                /\ runs'[c].pc = IF n < Len(requested) THEN "sleep" ELSE "done"]_vars

\* a run over two batches went through although the first request of the
\* first batch and every request of the second failed
C35_DoneDespiteFailures ==
    \E c \in Cycles :
       /\ runs[c].pc = "done"
       /\ input.games = LibMany
       /\ input.failing[1] = "first" /\ input.failing[2] = "all"
       /\ allGames[FindIndex(allGames, 1)].achievements = NULL
       /\ allGames[FindIndex(allGames, 2)].achievements # NULL
       /\ data.gamesWithAchievements = Num(5)

\* C36: a run ends as completed (the completion notification) in one step
\* only, the one that processes its last batch, and only with its token
\* current; nothing of an ended run happens afterwards; a step of a
\* superseded run ends it silently (neither completed nor failed) and
\* leaves the Profile alone; a run that ends on an error leaves an
\* aggregate that is not null and in which no count is lower than before.
C36_TerminalNotification ==
    [][\A c \in Cycles :
          runs'[c] # runs[c] =>
             /\ runs[c].pc \notin {"done", "failed", "cancelled"}
             /\ runs'[c].pc = "done" =>
                   /\ runs[c].pc = "await"
                   /\ runs[c].fetchId = achievementFetchId
                   /\ runs[c].i + ACHIEVEMENT_PARALLEL >= Len(runs[c].games)
             /\ (RunInFlight(c) /\ runs[c].fetchId # achievementFetchId) =>
                   /\ runs'[c].pc = "cancelled"
                   /\ data' = data /\ allGames' = allGames
             /\ runs'[c].pc = "failed" =>
                   /\ runs[c].fetchId = achievementFetchId
                   /\ AggregateOf(data') # NULL
                   /\ AggregateOf(data')[1] # NULL
                   /\ (AggregateOf(data) # NULL /\ AggregateOf(data)[1] # NULL) =>
                         \A j \in 1..4 : AggregateOf(data')[j].v >= AggregateOf(data)[j].v]_vars

\* one run completed and a later one ended on an error after publishing
\* counts
C36_CompletedThenFailed ==
    \E c, d \in Cycles :
       /\ runs[c].pc = "done"
       /\ runs[d].pc = "failed"
       /\ data.totalAchievements # NULL /\ data.totalAchievements.v > 0

\* C37: a step of an enrichment run keeps state.allGames the same games in
\* the same order, each with every field but achievements unchanged, and
\* keeps the Profile with the same fields, every one but the five aggregate
\* fields unchanged.
C37_EnrichmentFrame ==
    [][\A c \in Cycles :
          (RunInFlight(c) /\ runs'[c] # runs[c]) =>
             LET aggregate == {"totalAchievements", "totalPossibleAchievements",
                               "perfectGames", "gamesWithAchievements",
                               "avgAchievementCompletion"}
             IN /\ Len(allGames') = Len(allGames)
                /\ \A k \in 1..Len(allGames) :
                      /\ DOMAIN allGames'[k] = DOMAIN allGames[k]
                      /\ \A f \in DOMAIN allGames[k] \ {"achievements"} :
                            allGames'[k][f] = allGames[k][f]
                /\ data = NULL <=> data' = NULL
                /\ data # NULL =>
                      /\ DOMAIN data' = DOMAIN data
                      /\ \A f \in DOMAIN data \ aggregate : data'[f] = data[f]]_vars

\* a run has written the achievements of a game and the aggregate of a
\* Profile of several games
C37_RunHasWritten ==
    \E c \in Cycles :
       /\ runs[c].pc \in {"sleep", "done"}
       /\ IsApiProfile(data) /\ data.totalAchievements # NULL
       /\ data.totalGames = Len(allGames) /\ Len(allGames) > 1
       /\ \E k \in 1..Len(allGames) : allGames[k].achievements # NULL
       /\ \E k \in 1..Len(allGames) : allGames[k].achievements = NULL

\* C38: when the authenticated adapter has published, state.allGames holds
\* one Game per owned game of the response and no other, in non-increasing
\* order of all-time minutes, each with achievements null; the Profile's
\* most-played game is an owned game no other owned game has more minutes
\* than, with its hours, and 'N/A' with 0 hours for an empty library.
C38_GamesByPlaytime ==
    (fetches[1].pc = "published" /\ IsApiProfile(data)) =>
       LET owned == input.games
           minutes(appid) == Minutes(owned[FindIndex(owned, appid)], "playtime_forever")
       IN /\ Len(allGames) = Len(owned)
          /\ \A k \in 1..Len(owned) :
                \E j \in 1..Len(allGames) :
                   /\ allGames[j].appid = owned[k].appid
                   /\ allGames[j].name = owned[k].name
                   /\ allGames[j].hoursTotal = Rat(Minutes(owned[k], "playtime_forever"), 60)
          /\ \A i, j \in 1..Len(allGames) :
                i < j => minutes(allGames[i].appid) >= minutes(allGames[j].appid)
          /\ \A k \in 1..Len(allGames) : allGames[k].achievements = NULL
          /\ IF Len(owned) = 0
             THEN data.mostPlayed = "N/A" /\ data.mostPlayedHours = Rat(0, 1)
             ELSE \E k \in 1..Len(owned) :
                     /\ data.mostPlayed = owned[k].name
                     /\ data.mostPlayedHours = Rat(Minutes(owned[k], "playtime_forever"), 60)
                     /\ \A j \in 1..Len(owned) :
                           Minutes(owned[j], "playtime_forever")
                              <= Minutes(owned[k], "playtime_forever")

\* the library that was answered out of order has been published in order
C38_UnsortedLibraryPublished ==
    /\ fetches[1].pc = "published" /\ IsApiProfile(data)
    /\ input.games = LibUnsorted
    /\ Len(allGames) = 4
    /\ allGames[1].appid = 2 /\ allGames[2].appid = 4
    /\ data.mostPlayed = "2"

====
